---- MODULE Spec2Model ----
(***************************************************************************)
(* Map-to-collider extraction and per-frame collision resolution of the    *)
(* parking-garage shooter (src/src/main.rs, src/src/collision.rs,          *)
(* src/src/camera.rs).                                                     *)
(*                                                                         *)
(* The collision code computes in f32.  The model keeps that arithmetic:   *)
(* a float is a record [k, s, e, m] standing for (-1)^s * m * 2^e with a   *)
(* 24-bit significand m, and every operation rounds its exact result to    *)
(* nearest, ties to even, as IEEE 754 binary32 does.  The exponent range   *)
(* is not limited: every value the model computes lies far inside the      *)
(* normal range of binary32, so neither overflow nor subnormals occur.     *)
(***************************************************************************)
EXTENDS Integers, Sequences, FiniteSets, TLC

(***************************************************************************)
(* f32                                                                     *)
(***************************************************************************)

\* Significand width of f32 (binary32): 24 bits, hidden bit included.
MantBits == 24

Pow2(k) == 2 ^ k

MantLo == Pow2(MantBits - 1)

MantHi == Pow2(MantBits)

NaN == [k |-> "nan", s |-> 0, e |-> 0, m |-> 0]

Inf(s) == [k |-> "inf", s |-> s, e |-> 0, m |-> 0]

Zero(s) == [k |-> "num", s |-> s, e |-> 0, m |-> 0]

IsNaN(a) == a.k = "nan"

IsInf(a) == a.k = "inf"

IsZero(a) == a.k = "num" /\ a.m = 0

RECURSIVE BitLen(_)
BitLen(m) == IF m = 0 THEN 0 ELSE 1 + BitLen(m \div 2)

\* Intermediate values are handed on as operator parameters rather than
\* named in LET, so that each is computed once.

RoundCarry(s, q, e) ==
    IF q = MantHi THEN [k |-> "num", s |-> s, e |-> e + 1, m |-> MantLo]
    ELSE [k |-> "num", s |-> s, e |-> e, m |-> q]

\* q is the kept significand, rem the bits cut off, half the weight of the
\* first of them: round to nearest, ties to even.
RoundCut(s, q, rem, half, e, st) ==
    RoundCarry(s,
               IF rem > half \/ (rem = half /\ (st \/ q % 2 = 1))
               THEN q + 1 ELSE q,
               e)

RoundBits(s, m, e, st, L) ==
    IF L <= MantBits
    THEN [k |-> "num", s |-> s, e |-> e - (MantBits - L),
          m |-> m * Pow2(MantBits - L)]
    ELSE RoundCut(s, m \div Pow2(L - MantBits), m % Pow2(L - MantBits),
                  Pow2(L - MantBits - 1), e + (L - MantBits), st)

\* The float nearest to (-1)^s * (m + f) * 2^e, where 0 <= f < 1 and st
\* says whether f > 0.  When st holds m has more than MantBits bits, so the
\* rounding bit is a bit of m.
RoundPack(s, m, e, st) ==
    IF m = 0 THEN Zero(s) ELSE RoundBits(s, m, e, st, BitLen(m))

\* i as f32 ("x as f32" of a small integer, or an integral literal).
FInt(i) == IF i < 0 THEN RoundPack(1, -i, 0, FALSE) ELSE RoundPack(0, i, 0, FALSE)

FNeg(a) == IF IsNaN(a) THEN a ELSE [a EXCEPT !.s = 1 - a.s]

FAbs(a) == IF IsNaN(a) THEN a ELSE [a EXCEPT !.s = 0]

Jam(q, rem) == IF rem # 0 /\ q % 2 = 0 THEN q + 1 ELSE q

\* m shifted right by d bits, a lost 1 kept in the lowest bit.
ShiftRightJam(m, d) ==
    IF d = 0 THEN m
    ELSE IF d >= 31 THEN (IF m = 0 THEN 0 ELSE 1)
    ELSE Jam(m \div Pow2(d), m % Pow2(d))

\* |a| < |b| for finite numbers in normal form.
MagLt(a, b) ==
    IF b.m = 0 THEN FALSE
    ELSE IF a.m = 0 THEN TRUE
    ELSE a.e < b.e \/ (a.e = b.e /\ a.m < b.m)

\* big has the larger magnitude; mb and ms are the two significands with
\* six guard bits, ms aligned to big's exponent.
AddAligned(big, mb, ms, ss) ==
    IF big.s # ss /\ mb = ms THEN Zero(0)
    ELSE RoundPack(big.s, IF big.s = ss THEN mb + ms ELSE mb - ms,
                   big.e - 6, FALSE)

AddOrdered(big, sml) ==
    AddAligned(big, big.m * 64, ShiftRightJam(sml.m * 64, big.e - sml.e), sml.s)

\* a + b for finite a, b.
AddNum(a, b) ==
    IF a.m = 0 /\ b.m = 0 THEN Zero(IF a.s = 1 /\ b.s = 1 THEN 1 ELSE 0)
    ELSE IF a.m = 0 THEN b
    ELSE IF b.m = 0 THEN a
    ELSE IF MagLt(a, b) THEN AddOrdered(b, a)
    ELSE AddOrdered(a, b)

FAdd(a, b) ==
    IF IsNaN(a) \/ IsNaN(b) THEN NaN
    ELSE IF IsInf(a) /\ IsInf(b) THEN (IF a.s = b.s THEN a ELSE NaN)
    ELSE IF IsInf(a) THEN a
    ELSE IF IsInf(b) THEN b
    ELSE AddNum(a, b)

FSub(a, b) == FAdd(a, FNeg(b))

\* The product of two 24-bit significands needs 48 bits: it is built from
\* 12-bit halves as hi * 2^24 + lo and handed to RoundPack as its top bits
\* plus a sticky flag.
MulRound(s, e, hi, lo) ==
    RoundPack(s, hi * 4 + lo \div Pow2(22), e + 22, lo % Pow2(22) # 0)

MulLow(s, e, hh, mid, low) ==
    MulRound(s, e, hh + mid \div Pow2(12) + low \div MantHi, low % MantHi)

MulMid(s, e, hh, mid, ll) ==
    MulLow(s, e, hh, mid, ll + (mid % Pow2(12)) * Pow2(12))

MulParts(s, e, a1, a0, b1, b0) ==
    MulMid(s, e, a1 * b1, a1 * b0 + a0 * b1, a0 * b0)

FMul(a, b) ==
    IF IsNaN(a) \/ IsNaN(b) THEN NaN
    ELSE IF IsInf(a) \/ IsInf(b)
    THEN (IF IsZero(a) \/ IsZero(b) THEN NaN ELSE Inf((a.s + b.s) % 2))
    ELSE IF a.m = 0 \/ b.m = 0 THEN Zero((a.s + b.s) % 2)
    ELSE MulParts((a.s + b.s) % 2, a.e + b.e,
                  a.m \div Pow2(12), a.m % Pow2(12),
                  b.m \div Pow2(12), b.m % Pow2(12))

\* Long division, seven quotient bits a step: after n more steps it
\* returns the quotient and whether a remainder is left.
RECURSIVE LongDiv(_, _, _, _)
LongDiv(q, r, d, n) ==
    IF n = 0 THEN <<q, r # 0>>
    ELSE LongDiv(q * 128 + (r * 128) \div d, (r * 128) % d, d, n - 1)

DivRound(s, e, qr) == RoundPack(s, qr[1], e, qr[2])

\* floor(a.m * 2^28 / b.m) is the quotient of the significands; a power
\* of two divides exactly, by a shift of the exponent.
FDiv(a, b) ==
    IF IsNaN(a) \/ IsNaN(b) THEN NaN
    ELSE IF IsInf(a) THEN (IF IsInf(b) THEN NaN ELSE Inf((a.s + b.s) % 2))
    ELSE IF IsInf(b) THEN Zero((a.s + b.s) % 2)
    ELSE IF b.m = 0 THEN (IF a.m = 0 THEN NaN ELSE Inf((a.s + b.s) % 2))
    ELSE IF a.m = 0 THEN Zero((a.s + b.s) % 2)
    ELSE IF b.m = MantLo
         THEN [k |-> "num", s |-> (a.s + b.s) % 2,
               e |-> a.e - b.e - (MantBits - 1), m |-> a.m]
    ELSE DivRound((a.s + b.s) % 2, a.e - b.e - 28,
                  LongDiv(a.m \div b.m, a.m % b.m, b.m, 4))

\* Digit-by-digit square root of hi * 2^26: n pairs of radicand bits are
\* still to come, the upper 13 pairs taken from hi, the lower 13 zero.
RECURSIVE SqrtBits(_, _, _, _)
SqrtStep(hi, n, root, r, t) ==
    IF r >= t THEN SqrtBits(hi, n, root * 2 + 1, r - t)
    ELSE SqrtBits(hi, n, root * 2, r)

SqrtBits(hi, n, root, rem) ==
    IF n = 0 THEN <<root, rem # 0>>
    ELSE SqrtStep(hi, n - 1, root,
                  rem * 4 + (IF n > 13 THEN (hi \div Pow2(2 * (n - 14))) % 4 ELSE 0),
                  root * 4 + 1)

SqrtRound(rt, e) == RoundPack(0, rt[1], e, rt[2])

\* The square root of m2 * 2^e2, e2 even.
SqrtEven(m2, e2) == SqrtRound(SqrtBits(m2, 26, 0, 0), (e2 - 26) \div 2)

\* An even power of two has an exact root, half its exponent.
FSqrt(a) ==
    IF IsNaN(a) THEN NaN
    ELSE IF IsZero(a) THEN a
    ELSE IF a.s = 1 THEN NaN
    ELSE IF IsInf(a) THEN a
    ELSE IF a.m = MantLo /\ a.e % 2 = 1
         THEN [a EXCEPT !.e = (a.e - (MantBits - 1)) \div 2]
    ELSE SqrtEven(IF a.e % 2 # 0 THEN a.m * 2 ELSE a.m,
                  IF a.e % 2 # 0 THEN a.e - 1 ELSE a.e)

\* a < b (false when either is NaN).
FLt(a, b) ==
    IF IsNaN(a) \/ IsNaN(b) THEN FALSE
    ELSE IF IsInf(a) THEN a.s = 1 /\ ~(IsInf(b) /\ b.s = 1)
    ELSE IF IsInf(b) THEN b.s = 0
    ELSE IF a.m = 0 /\ b.m = 0 THEN FALSE
    ELSE IF a.m = 0 THEN b.s = 0
    ELSE IF b.m = 0 THEN a.s = 1
    ELSE IF a.s # b.s THEN a.s = 1
    ELSE IF a.s = 0 THEN MagLt(a, b) ELSE MagLt(b, a)

\* a == b of f32: NaN equals nothing, +0 equals -0.
FEq(a, b) ==
    IF IsNaN(a) \/ IsNaN(b) THEN FALSE
    ELSE IF IsZero(a) /\ IsZero(b) THEN TRUE
    ELSE a = b

FGt(a, b) == FLt(b, a)

FGe(a, b) == FLt(b, a) \/ FEq(a, b)

FLe(a, b) == FLt(a, b) \/ FEq(a, b)

\* The f32 nearest to n/d: what the literal n/d (0.3, 1.8, ...) denotes.
FRatio(n, d) == FDiv(FInt(n), FInt(d))

ClampHigh(a, hi) == IF FGt(a, hi) THEN hi ELSE a

\* A clamp without its upper bound.
ClampLowOnly(a, lo, hi) == IF FLt(a, lo) THEN lo ELSE a

\* f32::clamp(self, min, max): a NaN self stays NaN.
FClamp(a, lo, hi) == ClampHigh(IF FLt(a, lo) THEN lo ELSE a, hi)

(***************************************************************************)
(* glam::Vec3 (three f32, scalar arithmetic)                               *)
(***************************************************************************)

Vec3(x, y, z) == [x |-> x, y |-> y, z |-> z]

\* Vec3::dot: (x*x') + (y*y') + (z*z'), each step rounded.
VDot(a, b) == FAdd(FAdd(FMul(a.x, b.x), FMul(a.y, b.y)), FMul(a.z, b.z))

VLength(a) == FSqrt(VDot(a, a))

VScale(a, f) == Vec3(FMul(a.x, f), FMul(a.y, f), FMul(a.z, f))

VAdd(a, b) == Vec3(FAdd(a.x, b.x), FAdd(a.y, b.y), FAdd(a.z, b.z))

VSub(a, b) == Vec3(FSub(a.x, b.x), FSub(a.y, b.y), FSub(a.z, b.z))

\* Vec3::normalize: self * (1.0 / self.length()).  A zero vector gives
\* 0 * inf = NaN in every component (glam asserts nothing unless built
\* with its glam-assert feature).
VNormalize(a) == VScale(a, FDiv(FInt(1), VLength(a)))

\* Vec3 == Vec3: componentwise f32 equality.
VEq(a, b) == FEq(a.x, b.x) /\ FEq(a.y, b.y) /\ FEq(a.z, b.z)

(***************************************************************************)
(* collision.rs                                                            *)
(***************************************************************************)

\* A constructor that leaves the perpendicular undivided by the length.
NewFromLengthRaw(start, end, height, thickness, dx, dz, length) ==
    [start |-> start, end |-> end, height |-> height, thickness |-> thickness,
     normal |-> Vec3(FNeg(dz), Zero(0), dx)]

NewFromLength(start, end, height, thickness, dx, dz, length) ==
    [start |-> start, end |-> end, height |-> height, thickness |-> thickness,
     normal |-> Vec3(FDiv(FNeg(dz), length), Zero(0), FDiv(dx, length))]

NewFromDelta(start, end, height, thickness, dx, dz) ==
    NewFromLength(start, end, height, thickness, dx, dz,
                  FSqrt(FAdd(FMul(dx, dx), FMul(dz, dz))))

\* WallCollider::new
WallCollider_new(start, end, height, thickness) ==
    NewFromDelta(start, end, height, thickness,
                 FSub(end.x, start.x), FSub(end.z, start.z))

\* The wall thickness create_wall_collider passes on: the literal 0.3.
WALL_THICKNESS == FRatio(3, 10)

create_wall_collider(start, end, height) ==
    WallCollider_new(start, end, height, WALL_THICKNESS)

\* The block check_collision and resolve_collision both start with: the
\* closest point of the segment, the vector from it to the position
\* (distance_vec), its length (distance) and its dot product with the
\* normal (dot_product).
ClosestFromVec(self, distance_vec) ==
    [distance_vec |-> distance_vec,
     distance |-> VLength(distance_vec),
     dot_product |-> VDot(distance_vec, self.normal)]

ClosestFromPoint(self, position, closest_point) ==
    ClosestFromVec(self, Vec3(FSub(position.x, closest_point.x), Zero(0),
                              FSub(position.z, closest_point.z)))

ClosestFromT(self, position, wall_vec, t) ==
    ClosestFromPoint(self, position,
                     Vec3(FAdd(self.start.x, FMul(t, wall_vec.x)), Zero(0),
                          FAdd(self.start.z, FMul(t, wall_vec.z))))

ClosestFromWall(self, position, wall_vec) ==
    ClosestFromT(self, position, wall_vec,
                 FClamp(FDiv(VDot(Vec3(FSub(position.x, self.start.x), Zero(0),
                                       FSub(position.z, self.start.z)),
                                  wall_vec),
                             VDot(wall_vec, wall_vec)),
                        FInt(0), FInt(1)))

Closest(self, position) ==
    ClosestFromWall(self, position,
                    Vec3(FSub(self.end.x, self.start.x), Zero(0),
                         FSub(self.end.z, self.start.z)))

\* A one-sided variant of the test below, which leaves the thickness out:
\* what depends on the thick side must fail under it.
CollidesOneSided(self, radius, g) == FLt(g.distance, radius)

\* The two-sided test on the closest-point data g.
Collides(self, radius, g) ==
    \/ FGe(g.dot_product, FInt(0)) /\ FLt(g.distance, radius)
    \/ FLt(g.dot_product, FInt(0)) /\ FLt(g.distance, FAdd(radius, self.thickness))

\* A variant of check_collision without the height gate.
check_collision_ungated(self, position, radius) ==
    Collides(self, radius, Closest(self, position))

check_collision(self, position, radius) ==
    IF FGt(position.y, self.height) THEN FALSE
    ELSE Collides(self, radius, Closest(self, position))

\* position + distance_vec.normalize() * move_distance
Moved(position, g, move_distance) ==
    VAdd(position, VScale(VNormalize(g.distance_vec), move_distance))

\* A variant of the push below that clears the radius only on both sides.
PushedByRadius(self, position, radius, g) ==
    IF FLt(g.distance, radius)
    THEN Moved(position, g, FSub(radius, g.distance))
    ELSE position

\* The two branches of resolve_collision on the closest-point data g.
Pushed(self, position, radius, g) ==
    IF FGe(g.dot_product, FInt(0))
    THEN IF FLt(g.distance, radius)
         THEN Moved(position, g, FSub(radius, g.distance))
         ELSE position
    ELSE IF FLt(g.distance, FAdd(radius, self.thickness))
         THEN Moved(position, g, FSub(FAdd(radius, self.thickness), g.distance))
         ELSE position

resolve_collision(self, position, radius) ==
    IF ~check_collision(self, position, radius) THEN position
    ELSE Pushed(self, position, radius, Closest(self, position))

(***************************************************************************)
(* State                                                                   *)
(***************************************************************************)

VARIABLES
    stage,             \* "load" before State::new has run, "run" after it
    map_data,          \* State.map_data: rows of cells, 0 free, 1 wall
    wall_colliders,    \* State.wall_colliders
    camera,            \* State.camera: position, yaw, pitch
    camera_controller, \* State.camera_controller
    frames,            \* frames updated so far
    panicked,          \* the process has aborted on a Rust panic
    probe,             \* a single collider under test: its query and results
    wall_color,        \* the Arc<Mutex<Color>> shared with the HTTP server
    wall_color_buffer, \* State.wall_color_buffer: the wall-colour uniform
    camera_uniform,    \* State.camera_uniform, as written to camera_buffer
    minimap,           \* State.minimap: the player marker it last drew
    models,            \* State.models: the wall and edge meshes
    screen,            \* what the last State::render drew from
    other,             \* a second run of the program, fed the same events
    threads,           \* the wall_color mutex and the threads that take it
    devices            \* history: what the input devices last reported

vars == <<stage, map_data, wall_colliders, camera, camera_controller,
          frames, panicked, probe, wall_color, wall_color_buffer,
          camera_uniform, minimap, models, screen, other, threads, devices>>

\* What the renderer is given (uniforms, minimap texture, meshes) and what
\* it last drew.
display == <<wall_color_buffer, camera_uniform, minimap, models, screen>>

(***************************************************************************)
(* State::new: the collider extraction loop                                *)
(***************************************************************************)

\* let wall_height = 4.0; let cell_size = 2.0;
WALL_HEIGHT == 4

CELL_SIZE == 2

\* map_data[y][x], indices from 0 as in the source.
Cell(m, y, x) == m[y + 1][x + 1]

MapHeight(m) == Len(m)

MapWidth(m) == IF Len(m) > 0 THEN Len(m[1]) ELSE 0

\* An origin that puts the first cell's corner on the world origin.
OriginAtCorner(cells) == Zero(0)

\* origin = -(cells as f32 * cell_size) / 2.0
Origin(cells) == FDiv(FNeg(FMul(FInt(cells), FInt(CELL_SIZE))), FInt(2))

Face(sx, sz, ex, ez) ==
    create_wall_collider(Vec3(sx, Zero(0), sz), Vec3(ex, Zero(0), ez),
                         FInt(WALL_HEIGHT))

\* A variant of the north test that forgets the map border.
NorthExposedInside(m, y, x) == y > 0 /\ Cell(m, y - 1, x) = 0

NorthExposed(m, y, x) == y = 0 \/ Cell(m, y - 1, x) = 0

\* A variant of the south test that takes a wall neighbour for a free one.
SouthExposedToWall(m, y, x) == y = MapHeight(m) - 1 \/ Cell(m, y + 1, x) = 1

SouthExposed(m, y, x) == y = MapHeight(m) - 1 \/ Cell(m, y + 1, x) = 0

WestExposed(m, y, x) == x = 0 \/ Cell(m, y, x - 1) = 0

EastExposed(m, y, x) == x = MapWidth(m) - 1 \/ Cell(m, y, x + 1) = 0

\* The faces of a cell pushed going round it: north, east, south, west.
CellFacesClockwise(m, y, x, wall_x, wall_z, x1, z1) ==
    (IF NorthExposed(m, y, x) THEN <<Face(wall_x, wall_z, x1, wall_z)>> ELSE <<>>)
    \o (IF EastExposed(m, y, x) THEN <<Face(x1, wall_z, x1, z1)>> ELSE <<>>)
    \o (IF SouthExposed(m, y, x) THEN <<Face(wall_x, z1, x1, z1)>> ELSE <<>>)
    \o (IF WestExposed(m, y, x) THEN <<Face(wall_x, wall_z, wall_x, z1)>> ELSE <<>>)

\* The colliders the loop body pushes for wall cell (x, y), whose corners
\* are (wall_x, wall_z) and (x1, z1), in order: north, south, west, east.
CellFaces(m, y, x, wall_x, wall_z, x1, z1) ==
    (IF NorthExposed(m, y, x) THEN <<Face(wall_x, wall_z, x1, wall_z)>> ELSE <<>>)
    \o (IF SouthExposed(m, y, x) THEN <<Face(wall_x, z1, x1, z1)>> ELSE <<>>)
    \o (IF WestExposed(m, y, x) THEN <<Face(wall_x, wall_z, wall_x, z1)>> ELSE <<>>)
    \o (IF EastExposed(m, y, x) THEN <<Face(x1, wall_z, x1, z1)>> ELSE <<>>)

CellAt(m, y, x, wall_x, wall_z) ==
    CellFaces(m, y, x, wall_x, wall_z,
              FAdd(wall_x, FInt(CELL_SIZE)), FAdd(wall_z, FInt(CELL_SIZE)))

\* The body of the loop for one cell: the colliders it pushes.
CellColliders(m, y, x) ==
    IF Cell(m, y, x) # 1 THEN <<>>
    ELSE CellAt(m, y, x,
                FAdd(Origin(MapWidth(m)), FMul(FInt(x), FInt(CELL_SIZE))),
                FAdd(Origin(MapHeight(m)), FMul(FInt(y), FInt(CELL_SIZE))))

\* for y in 0..map_height { for x in 0..map_width { ... } }, from cell k
\* in row-major order on.
RECURSIVE ExtractFrom(_, _)
ExtractFrom(m, k) ==
    IF MapWidth(m) = 0 \/ k >= MapHeight(m) * MapWidth(m) THEN <<>>
    ELSE CellColliders(m, k \div MapWidth(m), k % MapWidth(m))
         \o ExtractFrom(m, k + 1)

ExtractColliders(m) == ExtractFrom(m, 0)

(***************************************************************************)
(* camera.rs                                                               *)
(***************************************************************************)

\* std::f32::consts::PI = 13176795 * 2^-22
PI == [k |-> "num", s |-> 0, e |-> -22, m |-> 13176795]

HALF_PI == FDiv(PI, FInt(2))

\* f32::sin and f32::cos at the angles update_camera passes while the yaw
\* is 0.0: 0.0 and 0.0 - PI/2.0.  cos(-PI/2) is not 0 in f32: PI/2 is
\* rounded, and the cosine of the rounded angle is -4.371139e-8.
FSin(a) ==
    IF IsZero(a) THEN a
    ELSE IF a = FNeg(HALF_PI) THEN FInt(-1)
    ELSE NaN

FCos(a) ==
    IF IsZero(a) THEN FInt(1)
    ELSE IF a = FNeg(HALF_PI) THEN [k |-> "num", s |-> 1, e |-> -48, m |-> 12303662]
    ELSE NaN

\* Camera::new((0.0, 1.8, -2.0), 0.0, 0.0)
Camera_new ==
    [position |-> Vec3(FInt(0), FRatio(18, 10), FInt(-2)),
     yaw |-> Zero(0), pitch |-> Zero(0)]

\* CameraController::new(4.0, 1.0)
CameraController_new ==
    [speed |-> FInt(4), sensitivity |-> FInt(1),
     forward |-> FALSE, backward |-> FALSE, left |-> FALSE, right |-> FALSE,
     left_stick_x |-> Zero(0), left_stick_y |-> Zero(0),
     right_stick_x |-> Zero(0), right_stick_y |-> Zero(0),
     mouse_move_x |-> Zero(0), mouse_move_y |-> Zero(0)]

\* A D-pad whose release does not reach the flag.
process_controller_sticky(cc, event) ==
    CASE event.type = "ButtonPressed" /\ event.name = "DPadUp" ->
            [cc EXCEPT !.forward = TRUE]
      [] event.type = "ButtonPressed" /\ event.name = "DPadDown" ->
            [cc EXCEPT !.backward = TRUE]
      [] event.type = "ButtonPressed" /\ event.name = "DPadLeft" ->
            [cc EXCEPT !.left = TRUE]
      [] event.type = "ButtonPressed" /\ event.name = "DPadRight" ->
            [cc EXCEPT !.right = TRUE]
      [] event.type = "AxisChanged" /\ event.name = "RightStickY" ->
            [cc EXCEPT !.right_stick_y =
                FMul(FMul(event.value, cc.sensitivity), FRatio(7, 10))]
      [] OTHER -> cc

\* CameraController::process_controller: a gilrs event with its type, the
\* name of its button or axis, and the value of an axis event.
process_controller(cc, event) ==
    CASE event.type \in {"ButtonPressed", "ButtonReleased"} /\ event.name = "DPadUp" ->
            [cc EXCEPT !.forward = (event.type = "ButtonPressed")]
      [] event.type \in {"ButtonPressed", "ButtonReleased"} /\ event.name = "DPadDown" ->
            [cc EXCEPT !.backward = (event.type = "ButtonPressed")]
      [] event.type \in {"ButtonPressed", "ButtonReleased"} /\ event.name = "DPadLeft" ->
            [cc EXCEPT !.left = (event.type = "ButtonPressed")]
      [] event.type \in {"ButtonPressed", "ButtonReleased"} /\ event.name = "DPadRight" ->
            [cc EXCEPT !.right = (event.type = "ButtonPressed")]
      [] event.type = "AxisChanged" /\ event.name = "LeftStickX" ->
            [cc EXCEPT !.left_stick_x = event.value]
      [] event.type = "AxisChanged" /\ event.name = "LeftStickY" ->
            [cc EXCEPT !.left_stick_y = event.value]
      [] event.type = "AxisChanged" /\ event.name = "RightStickX" ->
            [cc EXCEPT !.right_stick_x =
                FMul(FMul(FNeg(event.value), cc.sensitivity), FRatio(7, 10))]
      [] event.type = "AxisChanged" /\ event.name = "RightStickY" ->
            [cc EXCEPT !.right_stick_y =
                FMul(FMul(event.value, cc.sensitivity), FRatio(7, 10))]
      [] OTHER -> cc

\* CameraController::process_mouse: dx and dy are f64 values that f32 holds
\* exactly, so that "as f32" keeps them.
process_mouse(cc, dx, dy) ==
    [cc EXCEPT
        !.mouse_move_x = FMul(FNeg(FMul(dx, cc.sensitivity)), FRatio(7, 10)),
        !.mouse_move_y = FMul(FNeg(FMul(dy, cc.sensitivity)), FRatio(7, 10))]

\* The floor below which update_camera never leaves the camera.
EYE_FLOOR == FInt(1)

StepAdd(flag, position, delta) == IF flag THEN VAdd(position, delta) ELSE position

StepSub(flag, position, delta) == IF flag THEN VSub(position, delta) ELSE position

\* The keyboard / D-pad part: -= forward, += forward, -= right, += right.
MoveKeys(cc, position, fstep, rstep) ==
    StepAdd(cc.left,
            StepSub(cc.right,
                    StepAdd(cc.backward,
                            StepSub(cc.forward, position, fstep),
                            fstep),
                    rstep),
            rstep)

LeftStickActive(cc) ==
    \/ FGt(FAbs(cc.left_stick_x), FRatio(1, 10))
    \/ FGt(FAbs(cc.left_stick_y), FRatio(1, 10))

\* The left-stick part: -= right * x * speed * dt, -= forward * y * speed * dt.
MoveStick(cc, position, forward, right, dt) ==
    StepSub(LeftStickActive(cc),
            StepSub(LeftStickActive(cc), position,
                    VScale(VScale(VScale(right, cc.left_stick_x), cc.speed), dt)),
            VScale(VScale(VScale(forward, cc.left_stick_y), cc.speed), dt))

\* if camera.position.y < 1.0 { camera.position.y = 1.0 }
FloorClamp(position) ==
    IF FLt(position.y, EYE_FLOOR) THEN [position EXCEPT !.y = EYE_FLOOR]
    ELSE position

MovedPosition(cc, position, forward, right, dt) ==
    FloorClamp(MoveStick(cc,
                         MoveKeys(cc, position,
                                  VScale(VScale(forward, cc.speed), dt),
                                  VScale(VScale(right, cc.speed), dt)),
                         forward, right, dt))

\* v * sensitivity * dt * 2.0
Turn(cc, v, dt) == FMul(FMul(FMul(v, cc.sensitivity), dt), FInt(2))

\* CameraController::update_camera: the camera after it.
update_camera_camera(cc, cam, dt) ==
    [position |->
        MovedPosition(cc, cam.position,
                      VNormalize(Vec3(FSin(cam.yaw), Zero(0), FCos(cam.yaw))),
                      VNormalize(Vec3(FSin(FSub(cam.yaw, HALF_PI)), Zero(0),
                                      FCos(FSub(cam.yaw, HALF_PI)))),
                      dt),
     yaw |-> FAdd(FAdd(cam.yaw, Turn(cc, cc.right_stick_x, dt)),
                  Turn(cc, cc.mouse_move_x, dt)),
     pitch |-> FClamp(FAdd(FAdd(cam.pitch, Turn(cc, cc.right_stick_y, dt)),
                           Turn(cc, cc.mouse_move_y, dt)),
                      FAdd(FNeg(HALF_PI), FRatio(1, 10)),
                      FSub(HALF_PI, FRatio(1, 10)))]

\* An update_camera that leaves the stored mouse delta in place.
update_camera_controller_keeping(cc) == cc

\* CameraController::update_camera: the controller after it.
update_camera_controller(cc) ==
    [cc EXCEPT !.mouse_move_x = Zero(0), !.mouse_move_y = Zero(0)]

(***************************************************************************)
(* State::update                                                           *)
(***************************************************************************)

\* let player_radius = 0.5;
PLAYER_RADIUS == FRatio(1, 2)

\* The loop run from the last collider to the first.
RECURSIVE ResolveAllBackwards(_, _, _)
ResolveAllBackwards(colliders, i, position) ==
    IF position = position /\ i > Len(colliders) THEN position
    ELSE ResolveAllBackwards(colliders, i + 1,
                             resolve_collision(colliders[Len(colliders) + 1 - i],
                                               position, PLAYER_RADIUS))

\* for collider in &self.wall_colliders { position = collider.resolve_collision(..) }
\* Comparing position with itself makes TLC evaluate one call's result
\* before the next call starts, as the loop does.
RECURSIVE ResolveAll(_, _, _)
ResolveAll(colliders, i, position) ==
    IF position = position /\ i > Len(colliders) THEN position
    ELSE ResolveAll(colliders, i + 1,
                    resolve_collision(colliders[i], position, PLAYER_RADIUS))

\* The camera with its position resolved against every collider.
Resolved(colliders, cam) ==
    [cam EXCEPT !.position = ResolveAll(colliders, 1, cam.position)]

(***************************************************************************)
(* What the renderer reads: colour uniform, camera uniform, minimap        *)
(***************************************************************************)

\* Color::default.
Color_default == [r |-> FRatio(1, 2), g |-> FRatio(1, 2), b |-> FRatio(1, 2)]

\* wall_color_data: the colour's three channels and one float of padding.
WallColorData(color) == <<color.r, color.g, color.b, Zero(0)>>

\* CameraUniform::update_view_proj (the view position only).
update_view_proj(cam) ==
    [view_position |-> <<cam.position.x, cam.position.y, cam.position.z, FInt(1)>>]

\* Nothing has been drawn before the first frame.
Screen_new == [drawn |-> FALSE]

\* Minimap::new: the texture shows the map and no player marker yet.
Minimap_new == [marked |-> FALSE]

\* Minimap::update_player_position: the texture is redrawn with the marker
\* at the position it is handed.
update_player_position(player_position) ==
    [marked |-> TRUE, player_position |-> player_position]

\* let minimap_size = 256
minimap_size == 256

\* let marker_size = 3u32
marker_size == 3

\* f32 as u32: truncated towards zero, saturating, NaN to 0.  The u32 is
\* kept as its two 16-bit halves <<hi, lo>>.
AsU32(a) ==
    IF IsNaN(a) \/ a.s = 1 THEN <<0, 0>>
    ELSE IF IsInf(a) \/ BitLen(a.m) + a.e > 32 THEN <<65535, 65535>>
    ELSE IF a.e >= 16 THEN <<a.m * Pow2(a.e - 16), 0>>
    ELSE IF a.e >= 0
         THEN <<a.m \div Pow2(16 - a.e), (a.m % Pow2(16 - a.e)) * Pow2(a.e)>>
    ELSE IF a.e <= -MantBits THEN <<0, 0>>
    ELSE <<(a.m \div Pow2(-a.e)) \div 65536, (a.m \div Pow2(-a.e)) % 65536>>

\* player_pixel = (((coordinate - map_offset) / map_scale) * scale) as u32
\* with scale = size as f32 / cells as f32.
PlayerPixel(coordinate, map_offset, map_scale, cells) ==
    AsU32(FMul(FDiv(FSub(coordinate, map_offset), map_scale),
               FDiv(FInt(minimap_size), FInt(cells))))

\* px = player_pixel + d - marker_size / 2 in u32.  A release build wraps;
\* wrapped tells that the sum or the difference left the u32 range, where
\* a build with overflow checks panics.
MarkerCoord(player_pixel, d) ==
    LET sum == player_pixel[2] + d
        hi1 == player_pixel[1] + sum \div 65536
        lo1 == sum % 65536
        half == marker_size \div 2
    IN  [hi |-> ((hi1 % 65536) - (IF lo1 < half THEN 1 ELSE 0)) % 65536,
         lo |-> (lo1 - half) % 65536,
         wrapped |-> hi1 >= 65536 \/ (hi1 % 65536 = 0 /\ lo1 < half)]

(***************************************************************************)
(* model.rs: wall and edge meshes                                          *)
(***************************************************************************)

\* The box of create_wall: the front face runs from start to end, the back
\* face is the front face offset by (ox, oz) = (nx, nz) * thickness.
WallBox(start, end, height, ox, oz) ==
    [name |-> "wall", start |-> start, end |-> end, height |-> height,
     back_start |-> Vec3(FAdd(start.x, ox), Zero(0), FAdd(start.z, oz)),
     back_end |-> Vec3(FAdd(end.x, ox), Zero(0), FAdd(end.z, oz))]

\* let thickness = 0.3 in create_wall
CREATE_WALL_THICKNESS == FRatio(3, 10)

\* nx = -dz / length; nz = dx / length
WallFromLength(start, end, height, dx, dz, length) ==
    WallBox(start, end, height,
            FMul(FDiv(FNeg(dz), length), CREATE_WALL_THICKNESS),
            FMul(FDiv(dx, length), CREATE_WALL_THICKNESS))

\* create_wall: the box spanned by start, end and height, named "wall".
create_wall(start, end, height) ==
    WallFromLength(start, end, height,
                   FSub(end.x, start.x), FSub(end.z, start.z),
                   FSqrt(FAdd(FMul(FSub(end.x, start.x), FSub(end.x, start.x)),
                              FMul(FSub(end.z, start.z), FSub(end.z, start.z)))))

\* create_wall_edge: the outline of the same box, named "wall_edge".
create_wall_edge(start, end, height, wall_thickness) ==
    [name |-> "wall_edge", start |-> start, end |-> end, height |-> height,
     wall_thickness |-> wall_thickness]

\* The wall of one segment followed by its edge.
MeshPair(segment) ==
    <<create_wall(segment.start, segment.end, segment.height),
      create_wall_edge(segment.start, segment.end, segment.height,
                       segment.thickness)>>

RECURSIVE MeshPairs(_, _)
MeshPairs(segments, i) ==
    IF i > Len(segments) THEN <<>>
    ELSE MeshPair(segments[i]) \o MeshPairs(segments, i + 1)

RECURSIVE WallsOnly(_, _)
WallsOnly(segments, i) ==
    IF i > Len(segments) THEN <<>>
    ELSE <<create_wall(segments[i].start, segments[i].end, segments[i].height)>>
         \o WallsOnly(segments, i + 1)

\* A builder that leaves the edge meshes out.
create_parking_garage_unpaired(m) == WallsOnly(ExtractColliders(m), 1)

\* The wall part of create_parking_garage(device, dog_texture, map_data):
\* for each wall segment of the map one wall mesh and one edge mesh.
create_parking_garage(m) == MeshPairs(ExtractColliders(m), 1)

(***************************************************************************)
(* Bounds and inputs                                                       *)
(***************************************************************************)

\* Grids of up to MaxRows rows and MaxCols columns are extracted.
MaxRows == 2

MaxCols == 3

\* A run updates at most MaxFrames frames.
MaxFrames == 2

Grids(rows, cols) ==
    UNION {[1..r -> [1..c -> {0, 1}]] : r \in 0..rows, c \in 0..cols}

AllGrids == Grids(MaxRows, MaxCols)

\* The three-by-three maps whose middle cell is a wall: the smallest maps
\* in which a wall cell has four neighbours inside the map.
InteriorGrids == {m \in [1..3 -> [1..3 -> {0, 1}]] : m[2][2] = 1}

\* The maps the frame loop runs on: a wall cell in the middle of open floor
\* one unit south of the camera, and a wall cell in a dead-end corridor.
GameGrids ==
    {<<<<0, 0, 0>>, <<0, 1, 0>>, <<0, 0, 0>>>>,
     <<<<1, 0, 1>>, <<0, 1, 0>>>>}

\* Frame times (Duration::as_secs_f32): 1/8 s and a stalled frame of 1 s.
FrameTimes == {FRatio(1, 8), FInt(1)}

Keys == {"W", "S", "A", "D"}

\* A collider probe is stated in fortieths of a world unit: the segment
\* (sx, sz)-(ex, ez), the position (px, py, pz) and the radius r.  A
\* multiple of 5 is a multiple of 1/8 and so is exact in f32; 4 is the
\* literal 0.1, 72 the literal 1.8.
Fortieth(n) == FRatio(n, 40)

ProbeSegments ==
    {[sx |-> 0, sz |-> 0, ex |-> 80, ez |-> 0],
     [sx |-> 0, sz |-> 0, ex |-> 0, ez |-> 80]}

ProbeCoords == {-25, -20, -15, -6, -5, -4, 0, 4, 5, 15, 20, 40, 80, 95}

ProbeHeights == {0, 72, 160, 180}

ProbeRadii == {20, 10, 25}

ProbeInputs ==
    {[seg |-> g, px |-> x, py |-> y, pz |-> z, r |-> r] :
        g \in ProbeSegments, x \in ProbeCoords, y \in ProbeHeights,
        z \in ProbeCoords, r \in ProbeRadii}

ProbeCollider(in) ==
    Face(Fortieth(in.seg.sx), Fortieth(in.seg.sz),
         Fortieth(in.seg.ex), Fortieth(in.seg.ez))

ProbePosition(in) == Vec3(Fortieth(in.px), Fortieth(in.py), Fortieth(in.pz))

ProbeIdle == [stage |-> "idle"]

(***************************************************************************)
(* The frame loop                                                          *)
(***************************************************************************)

\* The state State::new leaves for map m.
Constructed(m) ==
    /\ stage = "run"
    /\ map_data = m
    /\ wall_colliders = ExtractColliders(m)
    /\ camera = Camera_new
    /\ camera_controller = CameraController_new
    /\ frames = 0
    /\ panicked = FALSE
    /\ wall_color = Color_default
    /\ wall_color_buffer = WallColorData(Color_default)
    /\ camera_uniform = update_view_proj(Camera_new)
    /\ minimap = Minimap_new
    /\ models = create_parking_garage(m)
    /\ screen = Screen_new

\* No second run.
OtherOff == [stage |-> "off"]

\* No key or button is held, every direction was last reported released,
\* and the mouse has not moved since the last frame.
Devices_new ==
    [held |-> {},
     latest |-> [forward |-> FALSE, backward |-> FALSE,
                 left |-> FALSE, right |-> FALSE],
     mouse |-> <<>>]

\* The direction a key or a D-pad button stands for.
Direction(name) ==
    CASE name \in {"W", "DPadUp"} -> "forward"
      [] name \in {"S", "DPadDown"} -> "backward"
      [] name \in {"A", "DPadLeft"} -> "left"
      [] name \in {"D", "DPadRight"} -> "right"

\* The mutex is free and no thread is inside a handler; completed is the
\* colour of the last PUT that has released the mutex, reply and latest
\* are what the last GET answered and what was completed when it did.
Threads_new ==
    [lock |-> "free",
     put |-> [pc |-> "idle", req |-> Color_default],
     get |-> [pc |-> "idle", reply |-> Color_default, latest |-> Color_default],
     frame |-> [pc |-> "idle", data |-> <<>>],
     completed |-> Color_default]

Init ==
    /\ \E m \in GameGrids : Constructed(m)
    /\ probe = ProbeIdle
    /\ other = OtherOff
    /\ threads = Threads_new
    /\ devices = Devices_new

\* CameraController::process_keyboard for W, S, A, D.
Pressed(cc, key, is_pressed) ==
    CASE key = "W" -> [cc EXCEPT !.forward = is_pressed]
      [] key = "S" -> [cc EXCEPT !.backward = is_pressed]
      [] key = "A" -> [cc EXCEPT !.left = is_pressed]
      [] key = "D" -> [cc EXCEPT !.right = is_pressed]

\* The history after the key or button called name reported is_pressed.
Heard(dev, name, is_pressed) ==
    [dev EXCEPT !.held = IF is_pressed THEN @ \cup {name} ELSE @ \ {name},
                !.latest[Direction(name)] = is_pressed]

\* State::input for a keyboard event.
process_keyboard(key, is_pressed) ==
    /\ stage = "run"
    /\ ~panicked
    /\ camera_controller' = Pressed(camera_controller, key, is_pressed)
    /\ devices' = Heard(devices, key, is_pressed)
    /\ UNCHANGED <<stage, map_data, wall_colliders, camera, frames, panicked,
                   probe, wall_color, display>>

\* A PUT /color that also puts the camera back where it started.
put_color_recentring(new_color) ==
    /\ stage = "run"
    /\ ~panicked
    /\ wall_color' = new_color
    /\ camera' = Camera_new
    /\ UNCHANGED <<stage, map_data, wall_colliders, camera_controller,
                   frames, panicked, probe, display>>

\* A PUT /color that also empties the collider list.
put_color_clearing(new_color) ==
    /\ stage = "run"
    /\ ~panicked
    /\ wall_color' = new_color
    /\ wall_colliders' = <<>>
    /\ UNCHANGED <<stage, map_data, camera, camera_controller,
                   frames, panicked, probe, display>>

\* PUT /color: the handler stores the new colour in the shared cell.
put_color(new_color) ==
    /\ stage = "run"
    /\ ~panicked
    /\ wall_color' = new_color
    /\ UNCHANGED <<stage, map_data, wall_colliders, camera, camera_controller,
                   frames, panicked, probe, display>>

\* The minimap, camera uniform and wall colour of the frame before.
RedisplayedStale(cam) ==
    /\ minimap' = update_player_position(camera.position)
    /\ camera_uniform' = update_view_proj(camera)
    /\ wall_color_buffer' = WallColorData(wall_color)

\* What State::update does after the position is written back, when the
\* map has a first row: minimap, camera uniform, wall-colour uniform.
Redisplayed(cam) ==
    /\ minimap' = update_player_position(cam.position)
    /\ camera_uniform' = update_view_proj(cam)
    /\ wall_color_buffer' = WallColorData(wall_color)

\* State::update: move the camera, resolve it against every collider in
\* turn, write the position back; then the minimap origin is recomputed
\* from map_data[0], which panics on a map without rows; then minimap,
\* camera uniform and wall colour are refreshed from the state.
update(dt) ==
    /\ stage = "run"
    /\ ~panicked
    /\ frames < MaxFrames
    /\ camera' = Resolved(wall_colliders,
                          update_camera_camera(camera_controller, camera, dt))
    /\ camera_controller' = update_camera_controller(camera_controller)
    /\ panicked' = (Len(map_data) = 0)
    /\ frames' = frames + 1
    /\ devices' = [devices EXCEPT !.mouse = <<>>]
    /\ IF Len(map_data) = 0
          THEN UNCHANGED <<minimap, camera_uniform, wall_color_buffer>>
          ELSE Redisplayed(camera')
    /\ UNCHANGED <<stage, map_data, wall_colliders, probe, wall_color, models>>

\* State::render, on its Ok path: the scene is drawn with the camera and
\* wall-colour bind groups, the minimap with its texture.  It runs after
\* update in the same RedrawRequested event, unless update panicked.
render ==
    screen' = IF panicked' THEN screen
              ELSE [drawn |-> TRUE,
                    view_position |-> camera_uniform'.view_position,
                    wall_color |-> wall_color_buffer',
                    minimap |-> minimap']

KeyboardInput ==
    \E key \in Keys, is_pressed \in BOOLEAN :
        process_keyboard(key, is_pressed) /\ UNCHANGED <<other, threads>>

RedrawRequested ==
    \E dt \in FrameTimes : update(dt) /\ render /\ UNCHANGED <<other, threads>>

Next == KeyboardInput \/ RedrawRequested

Spec == Init /\ [][Next]_vars

(***************************************************************************)
(* Keyboard, gamepad and mouse on the smallest grids                       *)
(***************************************************************************)

\* State::input_controller for one gilrs event.
input_controller(event) ==
    /\ stage = "run"
    /\ ~panicked
    /\ camera_controller' = process_controller(camera_controller, event)
    /\ devices' = IF event.type = "AxisChanged" THEN devices
                  ELSE Heard(devices, event.name, event.type = "ButtonPressed")
    /\ UNCHANGED <<stage, map_data, wall_colliders, camera, frames, panicked,
                   probe, wall_color, display>>

\* State::process_mouse for one DeviceEvent::MouseMotion.
State_process_mouse(dx, dy) ==
    /\ stage = "run"
    /\ ~panicked
    /\ camera_controller' = process_mouse(camera_controller, dx, dy)
    /\ devices' = [devices EXCEPT !.mouse = <<dx, dy>>]
    /\ UNCHANGED <<stage, map_data, wall_colliders, camera, frames, panicked,
                   probe, wall_color, display>>

\* The program on the grid without rows and on the grid of one wall cell.
InitInput ==
    /\ \E m \in {<<>>, <<<<1>>>>} : Constructed(m)
    /\ probe = ProbeIdle
    /\ other = OtherOff
    /\ threads = Threads_new
    /\ devices = Devices_new

\* The W key and the D-pad's Up button; the right stick pushed up or let
\* go; the mouse moved down by 4 or up by 1, not sideways, so that yaw
\* stays at 0, where sin and cos are known.
NextInput ==
    \/ \E is_pressed \in BOOLEAN :
          process_keyboard("W", is_pressed) /\ UNCHANGED <<other, threads>>
    \/ \E type \in {"ButtonPressed", "ButtonReleased"} :
          /\ input_controller([type |-> type, name |-> "DPadUp",
                               value |-> Zero(0)])
          /\ UNCHANGED <<other, threads>>
    \/ \E value \in {Zero(0), FInt(1)} :
          /\ input_controller([type |-> "AxisChanged", name |-> "RightStickY",
                               value |-> value])
          /\ UNCHANGED <<other, threads>>
    \/ \E dy \in {FInt(4), FInt(-1)} :
          State_process_mouse(Zero(0), dy) /\ UNCHANGED <<other, threads>>
    \/ RedrawRequested

SpecInput == InitInput /\ [][NextInput]_vars

(***************************************************************************)
(* Two runs on the same grid, events and frame times, each with its own    *)
(* PUT /color requests                                                     *)
(***************************************************************************)

\* The colours a client sends: the default grey and pure red.
Colors == {Color_default, [r |-> FInt(1), g |-> Zero(0), b |-> Zero(0)]}

\* State::new of the second run.
OtherConstructed(m) ==
    [stage |-> "run",
     wall_colliders |-> ExtractColliders(m),
     camera |-> Camera_new,
     camera_controller |-> CameraController_new,
     wall_color |-> Color_default,
     wall_color_buffer |-> WallColorData(Color_default),
     camera_uniform |-> update_view_proj(Camera_new),
     minimap |-> Minimap_new]

\* The second run's camera after the move and the resolve loop of a frame.
OtherResolved(run, dt) ==
    Resolved(run.wall_colliders,
             update_camera_camera(run.camera_controller, run.camera, dt))

OtherRedisplayed(run, cam) ==
    [run EXCEPT
        !.camera = cam,
        !.camera_controller = update_camera_controller(run.camera_controller),
        !.minimap = update_player_position(cam.position),
        !.camera_uniform = update_view_proj(cam),
        !.wall_color_buffer = WallColorData(run.wall_color)]

\* State::update of the second run.
OtherUpdated(run, dt) == OtherRedisplayed(run, OtherResolved(run, dt))

\* The grid both runs are given: one wall cell in the middle.
ColourGrids == {<<<<0, 0, 0>>, <<0, 1, 0>>, <<0, 0, 0>>>>}

\* The keys both runs are sent: towards the wall cell, and sideways.
ColourKeys == {"S", "A"}

InitColour ==
    /\ \E m \in ColourGrids : Constructed(m) /\ other = OtherConstructed(m)
    /\ threads = Threads_new
    /\ devices = Devices_new
    /\ probe = ProbeIdle

BothKeyboardInput ==
    \E key \in ColourKeys, is_pressed \in BOOLEAN :
        /\ process_keyboard(key, is_pressed)
        /\ other' = [other EXCEPT
                        !.camera_controller = Pressed(@, key, is_pressed)]
        /\ UNCHANGED threads

BothRedrawRequested ==
    \E dt \in FrameTimes :
        /\ update(dt) /\ render /\ other' = OtherUpdated(other, dt)
        /\ UNCHANGED threads

PutColor ==
    \E new_color \in Colors :
        put_color(new_color) /\ UNCHANGED <<other, threads, devices>>

OtherPutColor ==
    \E new_color \in Colors :
        /\ stage = "run"
        /\ ~panicked
        /\ other' = [other EXCEPT !.wall_color = new_color]
        /\ UNCHANGED <<stage, map_data, wall_colliders, camera,
                       camera_controller, frames, panicked, probe, wall_color,
                       display, threads, devices>>

NextColour ==
    BothKeyboardInput \/ BothRedrawRequested \/ PutColor \/ OtherPutColor

SpecColour == InitColour /\ [][NextColour]_vars

(***************************************************************************)
(* The HTTP server thread and the frame loop around the wall_color mutex,  *)
(* one field of the Color at a time                                        *)
(***************************************************************************)

\* What no step of the threads below touches.
untinted == <<stage, map_data, wall_colliders, camera, camera_controller,
              frames, panicked, probe, camera_uniform, minimap, models,
              screen, other, devices>>

\* The step after writing or reading field r, g, b.
NextField(pc, last) ==
    CASE pc = "r" -> "g" [] pc = "g" -> "b" [] pc = "b" -> last

\* A PUT handler that goes on without taking the mutex.
PutLockFree ==
    \E new_color \in Colors :
        /\ threads.put.pc = "idle"
        /\ threads' = [threads EXCEPT !.put = [pc |-> "r", req |-> new_color]]
        /\ UNCHANGED <<untinted, wall_color, wall_color_buffer>>

\* PUT /color: wall_color_put.lock().unwrap() blocks until the mutex is free.
PutLock ==
    \E new_color \in Colors :
        /\ threads.lock = "free"
        /\ threads.put.pc = "idle"
        /\ threads' = [threads EXCEPT !.lock = "put",
                                      !.put = [pc |-> "r", req |-> new_color]]
        /\ UNCHANGED <<untinted, wall_color, wall_color_buffer>>

\* *color = new_color, one field at a time.
PutWrite ==
    /\ threads.put.pc \in {"r", "g", "b"}
    /\ wall_color' =
          CASE threads.put.pc = "r" -> [wall_color EXCEPT !.r = threads.put.req.r]
            [] threads.put.pc = "g" -> [wall_color EXCEPT !.g = threads.put.req.g]
            [] threads.put.pc = "b" -> [wall_color EXCEPT !.b = threads.put.req.b]
    /\ threads' = [threads EXCEPT !.put.pc = NextField(@, "reply")]
    /\ UNCHANGED <<untinted, wall_color_buffer>>

\* The reply is built and the guard dropped: the PUT is complete.
PutUnlock ==
    /\ threads.put.pc = "reply"
    /\ threads' = [threads EXCEPT
                      !.lock = IF @ = "put" THEN "free" ELSE @,
                      !.put = [pc |-> "idle", req |-> Color_default],
                      !.completed = threads.put.req]
    /\ UNCHANGED <<untinted, wall_color, wall_color_buffer>>

\* GET /color: wall_color_get.lock().unwrap().
GetLock ==
    /\ threads.lock = "free"
    /\ threads.get.pc = "idle"
    /\ threads' = [threads EXCEPT !.lock = "get", !.get.pc = "reply"]
    /\ UNCHANGED <<untinted, wall_color, wall_color_buffer>>

\* The reply is built from the cell and the guard dropped.
GetReply ==
    /\ threads.get.pc = "reply"
    /\ threads' = [threads EXCEPT
                      !.lock = "free",
                      !.get = [pc |-> "idle", reply |-> wall_color,
                               latest |-> threads.completed]]
    /\ UNCHANGED <<untinted, wall_color, wall_color_buffer>>

\* update_wall_color: if let Ok(color) = self.wall_color.lock().
FrameLock ==
    /\ threads.lock = "free"
    /\ threads.frame.pc = "idle"
    /\ threads' = [threads EXCEPT !.lock = "frame", !.frame.pc = "r"]
    /\ UNCHANGED <<untinted, wall_color, wall_color_buffer>>

\* wall_color_data = [color.r, color.g, color.b, 0.0], one field at a time.
FrameRead ==
    /\ threads.frame.pc \in {"r", "g", "b"}
    /\ threads' =
          [threads EXCEPT
              !.frame = [pc |-> NextField(threads.frame.pc, "upload"),
                         data |-> Append(threads.frame.data,
                                         CASE threads.frame.pc = "r" -> wall_color.r
                                           [] threads.frame.pc = "g" -> wall_color.g
                                           [] threads.frame.pc = "b" -> wall_color.b)]]
    /\ UNCHANGED <<untinted, wall_color, wall_color_buffer>>

\* queue.write_buffer(&self.wall_color_buffer, ..), then the guard is dropped.
FrameUpload ==
    /\ threads.frame.pc = "upload"
    /\ wall_color_buffer' = Append(threads.frame.data, Zero(0))
    /\ threads' = [threads EXCEPT !.lock = "free",
                                  !.frame = [pc |-> "idle", data |-> <<>>]]
    /\ UNCHANGED <<untinted, wall_color>>

InitTint ==
    /\ \E m \in ColourGrids : Constructed(m)
    /\ probe = ProbeIdle
    /\ other = OtherOff
    /\ threads = Threads_new
    /\ devices = Devices_new

NextTint ==
    \/ PutLock \/ PutWrite \/ PutUnlock
    \/ GetLock \/ GetReply
    \/ FrameLock \/ FrameRead \/ FrameUpload

SpecTint == InitTint /\ [][NextTint]_vars

(***************************************************************************)
(* State::new on every small grid                                          *)
(***************************************************************************)

InitExtract ==
    /\ stage = "load"
    /\ map_data \in AllGrids \cup InteriorGrids
    /\ wall_colliders = <<>>
    /\ camera = Camera_new
    /\ camera_controller = CameraController_new
    /\ frames = 0
    /\ panicked = FALSE
    /\ probe = ProbeIdle
    /\ wall_color = Color_default
    /\ wall_color_buffer = WallColorData(Color_default)
    /\ camera_uniform = update_view_proj(Camera_new)
    /\ minimap = Minimap_new
    /\ models = <<>>
    /\ screen = Screen_new
    /\ other = OtherOff
    /\ threads = Threads_new
    /\ devices = Devices_new

State_new ==
    /\ stage = "load"
    /\ stage' = "run"
    /\ models' = create_parking_garage(map_data)
    /\ wall_colliders' = ExtractColliders(map_data)
    /\ UNCHANGED <<map_data, camera, camera_controller, frames, panicked, probe,
                   wall_color, wall_color_buffer, camera_uniform, minimap,
                   screen, other, threads, devices>>

SpecExtract == InitExtract /\ [][State_new]_vars

(***************************************************************************)
(* One collider, one query                                                 *)
(***************************************************************************)

InitProbe ==
    /\ stage = "load"
    /\ map_data = <<>>
    /\ wall_colliders = <<>>
    /\ camera = Camera_new
    /\ camera_controller = CameraController_new
    /\ frames = 0
    /\ panicked = FALSE
    /\ wall_color = Color_default
    /\ wall_color_buffer = WallColorData(Color_default)
    /\ camera_uniform = update_view_proj(Camera_new)
    /\ minimap = Minimap_new
    /\ models = <<>>
    /\ screen = Screen_new
    /\ other = OtherOff
    /\ threads = Threads_new
    /\ devices = Devices_new
    /\ \E in \in ProbeInputs :
          probe = [stage |-> "query", in |-> in,
                   collider |-> ProbeCollider(in),
                   position |-> ProbePosition(in),
                   radius |-> Fortieth(in.r)]

\* resolve_collision applied to the query.
ProbeResolve ==
    /\ probe.stage = "query"
    /\ probe' = [stage |-> "resolved", in |-> probe.in,
                 collider |-> probe.collider, position |-> probe.position,
                 radius |-> probe.radius,
                 hit |-> check_collision(probe.collider, probe.position, probe.radius),
                 first |-> resolve_collision(probe.collider, probe.position,
                                             probe.radius)]
    /\ UNCHANGED <<stage, map_data, wall_colliders, camera, camera_controller,
                   frames, panicked, wall_color, display, other, threads,
                   devices>>

\* resolve_collision applied to its own result, and check_collision after it.
ProbeResolveAgain ==
    /\ probe.stage = "resolved"
    /\ probe' = [stage |-> "again", in |-> probe.in,
                 collider |-> probe.collider, position |-> probe.position,
                 radius |-> probe.radius, hit |-> probe.hit, first |-> probe.first,
                 hit_after |-> check_collision(probe.collider, probe.first,
                                               probe.radius),
                 second |-> resolve_collision(probe.collider, probe.first,
                                              probe.radius)]
    /\ UNCHANGED <<stage, map_data, wall_colliders, camera, camera_controller,
                   frames, panicked, wall_color, display, other, threads,
                   devices>>

NextProbe == ProbeResolve \/ ProbeResolveAgain

SpecCollider == InitProbe /\ [][NextProbe]_vars

(***************************************************************************)
(* One collider built from a segment whose start and end coincide          *)
(***************************************************************************)

DegenerateSegments ==
    {[sx |-> 0, sz |-> 0, ex |-> 0, ez |-> 0],
     [sx |-> 40, sz |-> -20, ex |-> 40, ez |-> -20]}

DegenerateInputs ==
    {[seg |-> g, px |-> x, py |-> y, pz |-> z, r |-> r] :
        g \in DegenerateSegments, x \in {-20, 0, 40}, y \in {0, 72},
        z \in {-20, 0, 5}, r \in {20, 10}}

InitDegenerate ==
    /\ stage = "load"
    /\ map_data = <<>>
    /\ wall_colliders = <<>>
    /\ camera = Camera_new
    /\ camera_controller = CameraController_new
    /\ frames = 0
    /\ panicked = FALSE
    /\ wall_color = Color_default
    /\ wall_color_buffer = WallColorData(Color_default)
    /\ camera_uniform = update_view_proj(Camera_new)
    /\ minimap = Minimap_new
    /\ models = <<>>
    /\ screen = Screen_new
    /\ other = OtherOff
    /\ threads = Threads_new
    /\ devices = Devices_new
    /\ \E in \in DegenerateInputs :
          probe = [stage |-> "query", in |-> in,
                   collider |-> ProbeCollider(in),
                   position |-> ProbePosition(in),
                   radius |-> Fortieth(in.r)]

SpecDegenerate == InitDegenerate /\ [][NextProbe]_vars

(***************************************************************************)
(* Properties of one collider, under SpecCollider                          *)
(***************************************************************************)

ProbeDone == probe.stage \in {"resolved", "again"}

\* C1: single-collider exactness.  For every collider, position P and
\* radius r, check_collision(resolve_collision(P, r), r) is false for that
\* same collider.
C1_SingleColliderExact == probe.stage = "again" => ~probe.hit_after

\* The two-sided rule in exact integer arithmetic on the fortieths of the
\* probe.  The closest point is start + t * wall_vec with the projection
\* t = tn / den clamped to [0, 1]; the probe segments are axis-aligned and
\* 80 long, so (tn * w) \div den is exact.  nx, nz is the normal times
\* the length of the segment.
RefClampT(num, den) == IF num < 0 THEN 0 ELSE IF num > den THEN den ELSE num

RefDelta(in) ==
    LET wx  == in.seg.ex - in.seg.sx
        wz  == in.seg.ez - in.seg.sz
        den == wx * wx + wz * wz
        tn  == RefClampT((in.px - in.seg.sx) * wx + (in.pz - in.seg.sz) * wz, den)
    IN  [x |-> in.px - (in.seg.sx + (tn * wx) \div den),
         z |-> in.pz - (in.seg.sz + (tn * wz) \div den),
         nx |-> -wz, nz |-> wx]

\* The thickness 0.3 in fortieths.
RefThickness == 12

RefCollides(in) ==
    LET d    == RefDelta(in)
        d2   == d.x * d.x + d.z * d.z
        side == d.x * d.nx + d.z * d.nz
    IN  \/ side >= 0 /\ d2 < in.r * in.r
        \/ side < 0 /\ d2 < (in.r + RefThickness) * (in.r + RefThickness)

\* C6: two-sided thickness rule.  For a position with y <= height,
\* check_collision is true exactly when (side >= 0 and distance < r) or
\* (side < 0 and distance < r + thickness), distance being the horizontal
\* distance to the closest point of the segment and side the dot product
\* of delta with the normal.
C6_TwoSidedRule ==
    (ProbeDone /\ FLe(probe.position.y, probe.collider.height))
        => (probe.hit <=> RefCollides(probe.in))

\* C6 witness: a probe on the thick side, farther than r from the segment
\* and nearer than r + thickness, was found to collide.
C6_Witness ==
    /\ probe.stage = "resolved"
    /\ probe.in = [seg |-> [sx |-> 0, sz |-> 0, ex |-> 80, ez |-> 0],
                   px |-> 40, py |-> 72, pz |-> -15, r |-> 10]
    /\ probe.hit

\* requiredClearance: r on the side >= 0 branch, r + thickness on the
\* side < 0 branch.
RequiredClearance(self, position, radius) ==
    IF FGe(Closest(self, position).dot_product, FInt(0)) THEN radius
    ELSE FAdd(radius, self.thickness)

\* C7: minimal correction.  resolve_collision returns P unchanged when
\* check_collision(P, r) is false; otherwise P.y is unchanged and the
\* result lies at distance exactly requiredClearance from the segment.
C7_MinimalCorrection ==
    ProbeDone =>
        /\ ~probe.hit => probe.first = probe.position
        /\ probe.hit =>
              /\ FEq(probe.first.y, probe.position.y)
              /\ FEq(Closest(probe.collider, probe.first).distance,
                     RequiredClearance(probe.collider, probe.position, probe.radius))

\* C8: idempotence.  For a single collider, resolve_collision applied to
\* its own result returns that result.
C8_Idempotent ==
    probe.stage = "again"
        => (probe.second = probe.first \/ VEq(probe.second, probe.first))

\* C9: height gate.  A position with y > height never collides, and
\* resolve_collision returns it unchanged, whatever the collider, the
\* radius and the horizontal location.
C9_HeightGate ==
    (ProbeDone /\ FGt(probe.position.y, probe.collider.height))
        => (~probe.hit /\ probe.first = probe.position)

\* C9 witness: a probe above the wall that the horizontal test alone
\* would report as colliding has been resolved.
C9_Witness ==
    /\ probe.stage = "resolved"
    /\ FGt(probe.position.y, probe.collider.height)
    /\ Collides(probe.collider, probe.radius,
                Closest(probe.collider, probe.position))

ScenarioWall == [sx |-> 0, sz |-> 0, ex |-> 80, ez |-> 0]

ScenarioProbe(pz) == [seg |-> ScenarioWall, px |-> 40, py |-> 0, pz |-> pz, r |-> 20]

\* C10: concrete scenario.  The collider from (0,0,0) to (2,0,0) with
\* height 4 and thickness 0.3 has its normal toward +Z; resolving
\* (1,0,0.1) with r = 0.5 yields (1,0,0.5) and resolving (1,0,-0.1) with
\* r = 0.5 yields (1,0,-0.8).
C10_Scenario ==
    ProbeDone =>
        /\ probe.in.seg = ScenarioWall =>
              /\ VEq(probe.collider.start, Vec3(FInt(0), FInt(0), FInt(0)))
              /\ VEq(probe.collider.end, Vec3(FInt(2), FInt(0), FInt(0)))
              /\ FEq(probe.collider.height, FInt(4))
              /\ FEq(probe.collider.thickness, FRatio(3, 10))
              /\ VEq(probe.collider.normal, Vec3(FInt(0), FInt(0), FInt(1)))
        /\ probe.in = ScenarioProbe(4) =>
              VEq(probe.first, Vec3(FInt(1), FInt(0), FRatio(1, 2)))
        /\ probe.in = ScenarioProbe(-4) =>
              VEq(probe.first, Vec3(FInt(1), FInt(0), FRatio(-8, 10)))

\* C10 witness: the query on the thickness side has been resolved.
C10_Witness ==
    /\ probe.stage = "resolved"
    /\ probe.in = ScenarioProbe(-4)
    /\ probe.hit
    /\ ~VEq(probe.first, probe.position)

(***************************************************************************)
(* Properties of the extraction, under SpecExtract                         *)
(***************************************************************************)

\* (dy, dx) of the north, south, west and east neighbour.
Directions == {<<-1, 0>>, <<1, 0>>, <<0, -1>>, <<0, 1>>}

InGrid(m, y, x) == y \in 0..(MapHeight(m) - 1) /\ x \in 0..(MapWidth(m) - 1)

FreeOrOutside(m, y, x) == ~InGrid(m, y, x) \/ Cell(m, y, x) = 0

\* The (wall cell, neighbour direction) pairs whose neighbour is Free or
\* out of bounds.
ExposedPairs(m) ==
    {p \in (0..(MapHeight(m) - 1)) \X (0..(MapWidth(m) - 1)) \X Directions :
        /\ Cell(m, p[1], p[2]) = 1
        /\ FreeOrOutside(m, p[1] + p[3][1], p[2] + p[3][2])}

WallCells(m) ==
    {p \in (0..(MapHeight(m) - 1)) \X (0..(MapWidth(m) - 1)) : Cell(m, p[1], p[2]) = 1}

Isolated(m, p) ==
    \A d \in Directions : FreeOrOutside(m, p[1] + d[1], p[2] + d[2])

\* C4: extraction coverage.  For any rectangular grid the number of
\* colliders equals the number of (wall cell, direction) pairs whose
\* neighbour is Free or out of bounds; an all-Free or empty grid emits
\* none and an isolated wall cell emits exactly 4.
C4_ExtractionCount ==
    stage = "run" =>
        /\ Len(wall_colliders) = Cardinality(ExposedPairs(map_data))
        /\ WallCells(map_data) = {} => Len(wall_colliders) = 0
        /\ \A p \in WallCells(map_data) :
              (WallCells(map_data) = {p} /\ Isolated(map_data, p))
                  => Len(wall_colliders) = 4

\* C4 witness: a grid whose wall cells share faces has been extracted.
C4_Witness ==
    /\ stage = "run"
    /\ map_data = <<<<0, 1, 1>>, <<0, 0, 1>>>>
    /\ Len(wall_colliders) = 8

\* The integer an f32 with an integral value holds.
ToInt(f) ==
    (IF f.s = 1 THEN -1 ELSE 1)
        * (IF f.e >= 0 THEN f.m * Pow2(f.e) ELSE f.m \div Pow2(-f.e))

\* The point one unit from the middle of the segment along its normal: the
\* centre of the cell the normal points into.
Beyond(c) ==
    VAdd(VAdd(c.start, VScale(VSub(c.end, c.start), FRatio(1, 2))), c.normal)

\* The cell with centre p is a wall cell of the grid.
WallAt(m, p) ==
    LET x == (ToInt(p.x) + MapWidth(m)) \div 2
        y == (ToInt(p.z) + MapHeight(m)) \div 2
    IN  InGrid(m, y, x) /\ Cell(m, y, x) = 1

\* C5: normal orientation.  The normal of every emitted segment points
\* away from the generating wall cell, toward the Free or out-of-bounds
\* neighbour.
C5_NormalsOutward ==
    stage = "run" =>
        \A i \in 1..Len(wall_colliders) :
            ~WallAt(map_data, Beyond(wall_colliders[i]))

(***************************************************************************)
(* Properties of the frame loop, under Spec                                *)
(***************************************************************************)

\* C2: the agent cannot penetrate walls.  After every frame update the
\* corrected position with radius 0.5 collides with no collider.
C2_NoPenetration ==
    (stage = "run" /\ frames > 0) =>
        \A i \in 1..Len(wall_colliders) :
            ~check_collision(wall_colliders[i], camera.position, PLAYER_RADIUS)

\* The sign of the side of c's line the position is on.
SideOf(c, position) ==
    VDot(Vec3(FSub(position.x, c.start.x), Zero(0), FSub(position.z, c.start.z)),
         c.normal)

\* The position projects onto the segment itself, not beyond its ends.
Alongside(c, position) ==
    LET wall_vec == Vec3(FSub(c.end.x, c.start.x), Zero(0), FSub(c.end.z, c.start.z))
        t == FDiv(VDot(Vec3(FSub(position.x, c.start.x), Zero(0),
                            FSub(position.z, c.start.z)), wall_vec),
                  VDot(wall_vec, wall_vec))
    IN  FGe(t, FInt(0)) /\ FLe(t, FInt(1))

\* from and to lie on opposite sides of segment c.
Crosses(c, from, to) ==
    /\ Alongside(c, from)
    /\ Alongside(c, to)
    /\ \/ FLt(SideOf(c, from), FInt(0)) /\ FGt(SideOf(c, to), FInt(0))
       \/ FGt(SideOf(c, from), FInt(0)) /\ FLt(SideOf(c, to), FInt(0))

\* C3: the agent cannot pass through a wall.  Whatever the elapsed time of
\* a frame, the agent is never on one side of a wall segment in one frame
\* and on the opposite side of that segment in the next.
C3_NoTunnel ==
    [][\A i \in 1..Len(wall_colliders) :
          ~Crosses(wall_colliders[i], camera.position, camera'.position)]_vars

\* C11: floor clamp.  At the end of every frame update the camera position
\* satisfies y >= 1.0, the clamp being enforced on the position that results
\* from resolving against all colliders.
C11_FloorClamp ==
    (stage = "run" /\ frames > 0) => FGe(camera.position.y, EYE_FLOOR)

(***************************************************************************)
(* Properties of the running program with colour requests, under           *)
(* SpecColour                                                              *)
(***************************************************************************)

\* C12: purity and immutability.  Resolving and checking never modify a
\* collider, and no frame update, input event or colour request adds,
\* removes or changes an element of the collider set built by State::new:
\* every step of either run leaves its collider list as it was.
C12_CollidersImmutable ==
    [][/\ wall_colliders' = wall_colliders
       /\ other'.wall_colliders = other.wall_colliders]_vars

\* A frame has resolved the camera against the colliders (and moved it),
\* a key is held and a colour request has been served, and the collider
\* list is still the one State::new extracted.
C12_Witness ==
    /\ frames > 0
    /\ camera_controller.backward
    /\ wall_color # Color_default
    /\ camera.position # Camera_new.position
    /\ Len(wall_colliders) > 0
    /\ wall_colliders = ExtractColliders(map_data)

(***************************************************************************)
(* Properties of the meshes, under SpecExtract                             *)
(***************************************************************************)

C14_ColourNonInterference ==
    /\ other.wall_colliders = wall_colliders
    /\ other.camera = camera
    /\ other.camera_controller = camera_controller
    /\ other.camera_uniform = camera_uniform
    /\ other.minimap = minimap

\* After a frame in which a collider pushed the camera back, the two runs
\* show different wall colours.
C14_Witness ==
    /\ frames > 0
    /\ other.wall_color_buffer # wall_color_buffer
    /\ camera.position.z = FNeg(FRatio(9, 5))
    /\ other.camera.position.z = FNeg(FRatio(9, 5))

(***************************************************************************)
(* A degenerate segment, under SpecDegenerate                              *)
(***************************************************************************)

\* C15: degenerate-segment guard.  A segment whose start and end have the
\* same X and Z is caught at construction, so the collider that
\* check_collision and resolve_collision work on never has a NaN normal.
C15_DegenerateGuarded ==
    ProbeDone =>
        /\ ~IsNaN(probe.collider.normal.x)
        /\ ~IsNaN(probe.collider.normal.z)

(***************************************************************************)
(* Properties of the frame pass, under SpecColour and Spec                 *)
(***************************************************************************)

\* resolve_collision folded from the left over the first n colliders.
RECURSIVE FoldLeft(_, _, _)
FoldLeft(colliders, n, position) ==
    IF n = 0 THEN position
    ELSE LET before == FoldLeft(colliders, n - 1, position)
         IN  IF before = before
             THEN resolve_collision(colliders[n], before, PLAYER_RADIUS)
             ELSE before

\* The position the camera controller proposes for a frame of length dt.
Proposed(dt) == update_camera_camera(camera_controller, camera, dt).position

\* C16: single sequential pass.  In one frame update the position is
\* resolved against every collider exactly once, in list order, each
\* collider receiving the previous one's output, with no second pass: the
\* frame's position is the left fold of resolve_collision over the
\* collider list, started from the camera controller's proposed position.
C16_SinglePass ==
    [][frames' = frames + 1 =>
          \E dt \in FrameTimes :
              camera'.position =
                  FoldLeft(wall_colliders, Len(wall_colliders), Proposed(dt))]_vars

\* The first frame's pass has corrected the position that was proposed.
C16_Witness ==
    /\ frames = 1
    /\ \E dt \in FrameTimes :
          LET proposed == update_camera_camera(camera_controller, Camera_new, dt)
          IN  /\ camera = Resolved(wall_colliders, proposed)
              /\ camera # proposed

\* No key is held: the camera controller proposes no displacement.
ZeroInput ==
    /\ ~camera_controller.forward
    /\ ~camera_controller.backward
    /\ ~camera_controller.left
    /\ ~camera_controller.right

\* A frame pass with the input as it is would leave the camera where it is.
AtRest ==
    \A dt \in FrameTimes :
        Resolved(wall_colliders,
                 update_camera_camera(camera_controller, camera, dt)) = camera

\* C17: convergence across frames.  With zero input displacement the
\* repeated pass reaches, after finitely many frames, a position that
\* collides with no collider and then never changes.  So a position the
\* zero-input pass leaves unchanged, where every later frame stays, must
\* collide with no collider.
C17_ConvergesToFree ==
    (stage = "run" /\ ZeroInput /\ AtRest) =>
        \A i \in 1..Len(wall_colliders) :
            ~check_collision(wall_colliders[i], camera.position, PLAYER_RADIUS)

\* C18: frame step ordering.  In every displayed frame the render comes
\* after the camera update and the resolve pass, and the camera uniform
\* and the minimap it draws from hold the corrected position, the one
\* written back to the camera, never the proposed one or an older one.
C18_RenderAfterResolve ==
    /\ frames > 0 /\ ~panicked => screen.drawn
    /\ screen.drawn =>
          /\ screen.view_position =
                 <<camera.position.x, camera.position.y, camera.position.z, FInt(1)>>
          /\ screen.minimap.marked
          /\ screen.minimap.player_position = camera.position

\* The first frame has been drawn after its pass moved the camera off the
\* position that was proposed.
C18_Witness ==
    /\ frames = 1
    /\ screen.drawn
    /\ \E dt \in FrameTimes :
          LET proposed == update_camera_camera(camera_controller, Camera_new, dt)
          IN  /\ camera.position = FoldLeft(wall_colliders, Len(wall_colliders),
                                            proposed.position)
              /\ camera.position # proposed.position
              /\ screen.minimap.player_position # proposed.position

(***************************************************************************)
(* Properties of the extracted segments, under SpecExtract                 *)
(***************************************************************************)

\* The world coordinates of the centre of cell (y, x): cells are 2 wide and
\* the map is centred on the origin.
Centre(m, y, x) == <<2 * x + 1 - MapWidth(m), 2 * y + 1 - MapHeight(m)>>

\* The centres of the two cells a unit segment lies between: one unit to
\* either side of its middle, across it.
Sides(c) ==
    LET sx == ToInt(c.start.x)
        sz == ToInt(c.start.z)
        ex == ToInt(c.end.x)
        ez == ToInt(c.end.z)
    IN  IF sz = ez
        THEN {<<(sx + ex) \div 2, sz - 1>>, <<(sx + ex) \div 2, sz + 1>>}
        ELSE {<<sx - 1, (sz + ez) \div 2>>, <<sx + 1, (sz + ez) \div 2>>}

\* The wall cells of the map with centre p (none or one).
WallCellsAt(m, p) == {q \in WallCells(m) : Centre(m, q[1], q[2]) = p}

\* All four neighbours of cell p are inside the map and are wall cells.
Enclosed(m, p) ==
    \A d \in Directions :
        /\ InGrid(m, p[1] + d[1], p[2] + d[2])
        /\ Cell(m, p[1] + d[1], p[2] + d[2]) = 1

\* C19: no interior geometry.  No segment is emitted for a face shared by
\* two adjacent wall cells, so a wall cell whose four neighbours are all
\* in bounds and Wall has no segment on any of its faces.
C19_NoInteriorFaces ==
    stage = "run" =>
        /\ \A i \in 1..Len(wall_colliders) :
              \E p \in Sides(wall_colliders[i]) : WallCellsAt(map_data, p) = {}
        /\ \A q \in WallCells(map_data) :
              Enclosed(map_data, q) =>
                  \A i \in 1..Len(wall_colliders) :
                      Centre(map_data, q[1], q[2]) \notin Sides(wall_colliders[i])

\* A plus-shaped block of wall cells has been extracted: its middle cell
\* is enclosed and the twelve outer faces are the only segments.
C19_Witness ==
    /\ stage = "run"
    /\ map_data = <<<<0, 1, 0>>, <<1, 1, 1>>, <<0, 1, 0>>>>
    /\ Enclosed(map_data, <<1, 1>>)
    /\ Len(wall_colliders) = 12

\* The two world-space corners of the face of cell (y, x) towards its
\* neighbour in direction d, with cells 2 wide and the map's first corner
\* at (-width * 2 / 2, -height * 2 / 2).
FaceCorners(m, y, x, d) ==
    LET x0 == 2 * x - MapWidth(m)
        z0 == 2 * y - MapHeight(m)
    IN  CASE d = <<-1, 0>> -> {<<x0, z0>>, <<x0 + 2, z0>>}
          [] d = <<1, 0>>  -> {<<x0, z0 + 2>>, <<x0 + 2, z0 + 2>>}
          [] d = <<0, -1>> -> {<<x0, z0>>, <<x0, z0 + 2>>}
          [] d = <<0, 1>>  -> {<<x0 + 2, z0>>, <<x0 + 2, z0 + 2>>}

\* The two ends of a segment, as integers.
Ends(c) ==
    {<<ToInt(c.start.x), ToInt(c.start.z)>>, <<ToInt(c.end.x), ToInt(c.end.z)>>}

\* Every coordinate of the segment is exactly the integer Ends reads, and
\* the segment lies on the floor.
Integral(c) ==
    /\ FEq(c.start.x, FInt(ToInt(c.start.x)))
    /\ FEq(c.start.z, FInt(ToInt(c.start.z)))
    /\ FEq(c.end.x, FInt(ToInt(c.end.x)))
    /\ FEq(c.end.z, FInt(ToInt(c.end.z)))
    /\ IsZero(c.start.y)
    /\ IsZero(c.end.y)

\* C20: face placement.  The segment emitted for an exposed face of wall
\* cell (x, y) joins the two world-space corners of that face, with cell
\* size 2 and origin (-width * 2 / 2, -height * 2 / 2): so it has length
\* exactly 2, is axis-aligned, and the segments lie in the rectangle
\* [-width, width] x [-height, height] centred on the world origin.
C20_FacePlacement ==
    stage = "run" =>
        /\ {Ends(wall_colliders[i]) : i \in 1..Len(wall_colliders)}
              = {FaceCorners(map_data, p[1], p[2], p[3]) : p \in ExposedPairs(map_data)}
        /\ \A i \in 1..Len(wall_colliders) :
              LET c == wall_colliders[i]
              IN  /\ Integral(c)
                  /\ FEq(VLength(VSub(c.end, c.start)), FInt(CELL_SIZE))
                  /\ FEq(c.start.x, c.end.x) \/ FEq(c.start.z, c.end.z)
                  /\ \A e \in Ends(c) :
                        /\ e[1] \in (-MapWidth(map_data))..MapWidth(map_data)
                        /\ e[2] \in (-MapHeight(map_data))..MapHeight(map_data)

\* A map with wall cells in two opposite corners has been extracted: the
\* north face of the first and the east face of the last are among the
\* segments, at the two far corners of the rectangle.
C20_Witness ==
    /\ stage = "run"
    /\ map_data = <<<<1, 0, 0>>, <<0, 0, 1>>>>
    /\ \E i \in 1..Len(wall_colliders) :
          Ends(wall_colliders[i]) = {<<-3, -2>>, <<-1, -2>>}
    /\ \E i \in 1..Len(wall_colliders) :
          Ends(wall_colliders[i]) = {<<3, 0>>, <<3, 2>>}

\* A segment c with direction d and left-hand unit normal n is well formed.
WellFormedAs(c, d, n) ==
    /\ ~(FEq(c.start.x, c.end.x) /\ FEq(c.start.z, c.end.z))
    /\ IsZero(c.normal.y)
    /\ FEq(VLength(c.normal), FInt(1))
    /\ FEq(VDot(c.normal, d), Zero(0))
    /\ FEq(c.normal.x, n.x)
    /\ FEq(c.normal.z, n.z)

WellFormedFrom(c, d) ==
    WellFormedAs(c, d, VNormalize(Vec3(FNeg(d.z), Zero(0), d.x)))

\* C21: collider well-formedness.  Every collider of the collider set has
\* start # end in the horizontal plane and a normal with zero Y that is a
\* unit vector, perpendicular to end - start, and equal to
\* normalize(-dz, dx) where (dx, dz) = end - start.
C21_WellFormed ==
    stage = "run" =>
        \A i \in 1..Len(wall_colliders) :
            WellFormedFrom(wall_colliders[i],
                           VSub(wall_colliders[i].end, wall_colliders[i].start))

\* A grid has been extracted into segments running along X and segments
\* running along Z.
C21_Witness ==
    /\ stage = "run"
    /\ \E i \in 1..Len(wall_colliders) : ~IsZero(wall_colliders[i].normal.x)
    /\ \E i \in 1..Len(wall_colliders) : ~IsZero(wall_colliders[i].normal.z)

\* North, south, west, east as (dy, dx).
EmissionOrder == <<<<-1, 0>>, <<1, 0>>, <<0, -1>>, <<0, 1>>>>

\* The faces expected from cell number k (row-major) on, direction number
\* j on: the corners of each exposed face, cell after cell.
RECURSIVE ExpectedFrom(_, _, _)
ExpectedFrom(m, k, j) ==
    IF MapWidth(m) = 0 \/ k >= MapHeight(m) * MapWidth(m) THEN <<>>
    ELSE IF j > 4 THEN ExpectedFrom(m, k + 1, 1)
    ELSE LET y == k \div MapWidth(m)
             x == k % MapWidth(m)
         IN  (IF <<y, x, EmissionOrder[j]>> \in ExposedPairs(m)
              THEN <<FaceCorners(m, y, x, EmissionOrder[j])>>
              ELSE <<>>)
             \o ExpectedFrom(m, k, j + 1)

\* C22: deterministic emission order.  Colliders are appended in
\* row-major order of their generating cell (rows ascending, then columns
\* ascending) and within one cell in the order north, south, west, east,
\* so the collider sequence is a function of the grid alone.
C22_EmissionOrder ==
    stage = "run" =>
        [i \in 1..Len(wall_colliders) |-> Ends(wall_colliders[i])]
            = ExpectedFrom(map_data, 0, 1)

\* A row with two separate wall cells has been extracted: four faces of
\* the first cell, north first, then four of the second.
C22_Witness ==
    /\ stage = "run"
    /\ map_data = <<<<1, 0, 1>>>>
    /\ Len(wall_colliders) = 8
    /\ Ends(wall_colliders[1]) = {<<-3, -1>>, <<-1, -1>>}
    /\ Ends(wall_colliders[4]) = {<<-1, -1>>, <<-1, 1>>}
    /\ Ends(wall_colliders[5]) = {<<1, -1>>, <<3, -1>>}

\* C23: the thick side matches the rendered wall.  For every segment the
\* side on which the collider demands the larger clearance r + thickness,
\* where distance_vec . normal < 0, is the side into which its wall mesh
\* is extruded: the back face of the mesh lies on that side.
C23_ThickSideIsDrawnSide ==
    (stage = "run" /\ Len(models) = 2 * Len(wall_colliders)) =>
        \A i \in 1..Len(wall_colliders) :
            /\ FLt(SideOf(wall_colliders[i], models[2 * i - 1].back_start), Zero(0))
            /\ FLt(SideOf(wall_colliders[i], models[2 * i - 1].back_end), Zero(0))

(***************************************************************************)
(* A position on the segment, under SpecCollider                           *)
(***************************************************************************)

\* C24: the zero-distance case is well defined.  For a position lying
\* exactly on the segment (distance = 0, y <= height) and radius > 0,
\* resolve_collision returns a finite position.
C24_ZeroDistanceDefined ==
    (/\ ProbeDone
     /\ IsZero(Closest(probe.collider, probe.position).distance)
     /\ FLe(probe.position.y, probe.collider.height)
     /\ FGt(probe.radius, Zero(0)))
        => /\ probe.first.x.k = "num"
           /\ probe.first.y.k = "num"
           /\ probe.first.z.k = "num"

(***************************************************************************)
(* The wall-colour cell, under SpecTint                                    *)
(***************************************************************************)

\* C25: lock-guarded tint cell.  Under every interleaving of the HTTP
\* server thread and the frame loop, a frame reads the colour only while
\* it holds the mutex, the triple it uploads is the default or the
\* complete triple of one PUT /color, never a mixture of two, and a
\* GET /color answers with the triple of the most recently completed PUT.
C25_LockGuardedTint ==
    /\ wall_color_buffer \in {WallColorData(c) : c \in Colors}
    /\ threads.frame.pc # "idle" => threads.lock = "frame"
    /\ threads.get.reply = threads.get.latest

\* A frame has uploaded red, and a PUT of the default grey is half
\* written: the cell holds a mixture of the two requests.
C25_Witness ==
    /\ wall_color_buffer = WallColorData([r |-> FInt(1), g |-> Zero(0), b |-> Zero(0)])
    /\ threads.put.pc = "g"
    /\ threads.lock = "put"
    /\ wall_color \notin Colors

(***************************************************************************)
(* The minimap marker, under Spec                                          *)
(***************************************************************************)

\* The marker coordinates update_player_position computes for one axis.
MarkerRow(coordinate, cells) ==
    {MarkerCoord(PlayerPixel(coordinate, Origin(cells), FInt(CELL_SIZE), cells), d) :
        d \in 0..(marker_size - 1)}

\* C26: minimap marker stays in range.  Whatever position the minimap is
\* handed, every marker coordinate player_pixel + d - marker_size/2 is
\* computed in u32 without underflow or overflow (the test px < size and
\* py < size in front of put_pixel keeps every written pixel in range).
C26_MarkerInRange ==
    minimap.marked =>
        \A px \in MarkerRow(minimap.player_position.x, MapWidth(map_data)),
           py \in MarkerRow(minimap.player_position.z, MapHeight(map_data)) :
            ~px.wrapped /\ ~py.wrapped

(***************************************************************************)
(* Input handling, under SpecInput                                         *)
(***************************************************************************)

\* C27: frame update never faults on an empty grid.  For every grid the
\* extraction loop accepts, the grid without rows included, State::update
\* completes without an out-of-bounds access.
C27_EmptyGridNoFault == ~panicked

\* C28: direction flags follow the last event from either source.  After
\* any sequence of keyboard and D-pad events and frames, each movement flag
\* equals the pressed-state of the most recent event for its direction,
\* whichever device sent it.
C28_FlagsFollowLatest ==
    /\ camera_controller.forward = devices.latest.forward
    /\ camera_controller.backward = devices.latest.backward
    /\ camera_controller.left = devices.latest.left
    /\ camera_controller.right = devices.latest.right

\* W is still held, the D-pad's Up was released after it, and a frame later
\* the forward flag is clear.
C28_Witness ==
    /\ devices.held = {"W"}
    /\ ~camera_controller.forward
    /\ frames > 0

\* The mouse_move_y a mouse history leaves in the controller.
Applied(cc, mouse) ==
    IF mouse = <<>> THEN Zero(0)
    ELSE process_mouse(cc, mouse[1], mouse[2]).mouse_move_y

\* C29: mouse delta is applied at most once.  The stored delta is that of
\* the last mouse event since the last frame, and zero when there was none
\* (events overwrite, a frame resets); a frame with no mouse event before
\* it and the right stick at rest does not turn the camera.
C29_MouseAppliedOnce ==
    [][/\ camera_controller'.mouse_move_y = Applied(camera_controller', devices'.mouse)
       /\ (/\ frames' = frames + 1
           /\ devices.mouse = <<>>
           /\ camera_controller.right_stick_y = Zero(0))
              => camera'.pitch = camera.pitch /\ camera'.yaw = camera.yaw]_vars

\* A mouse event turned the camera down in one frame, no further mouse
\* event arrived, and the next frame has run.
C29_Witness ==
    /\ frames = MaxFrames
    /\ devices.mouse = <<>>
    /\ camera_controller.right_stick_y = Zero(0)
    /\ FLt(camera.pitch, Zero(0))
    /\ FGt(camera.pitch, FAdd(FNeg(HALF_PI), FRatio(1, 10)))

\* C30: pitch clamp invariant.  After every update_camera, for any sequence
\* of mouse and right-stick inputs and frame times, camera.pitch lies in
\* [-PI/2 + 0.1, PI/2 - 0.1].
C30_PitchClamped ==
    /\ FGe(camera.pitch, FAdd(FNeg(HALF_PI), FRatio(1, 10)))
    /\ FLe(camera.pitch, FSub(HALF_PI, FRatio(1, 10)))

\* The stick and the mouse together have pushed the pitch to its upper end.
C30_Witness ==
    /\ frames > 0
    /\ camera.pitch = FSub(HALF_PI, FRatio(1, 10))

====
